---- MODULE Spec2Model ----
(***************************************************************************)
(* Model of src/src/index.ts: the in-memory SimpleOAuthProvider, the       *)
(* module-level oauthProvider variable, createMcpClient and the two HTTP   *)
(* handlers POST /api/connect and GET /oauth/callback.                     *)
(*                                                                         *)
(* JavaScript strings are sequences of one-character strings, so that      *)
(* startsWith / substring / trim and template literals are computed the    *)
(* way the code computes them.  The MCP SDK (Client, SSEClientTransport)   *)
(* and the remote servers are collaborators outside the repository: each   *)
(* await on them is one step whose outcome is chosen nondeterministically  *)
(* among the outcomes the provider interface allows.                       *)
(***************************************************************************)
EXTENDS Integers, Sequences, FiniteSets, TLC

(***************************************************************************)
(* Bounds of the model.                                                    *)
(***************************************************************************)
\* number of HTTP requests served in one behaviour
MaxRequests == 3
\* number of direct calls of provider methods in one behaviour of SpecProvider
MaxCalls == 3

(***************************************************************************)
(* JavaScript values.                                                      *)
(***************************************************************************)
\* undefined where an object is expected (clientInfo, oauthTokens, oauthProvider)
undefined == [undefined |-> TRUE]
\* undefined where a string is expected (verifier, the code query parameter)
undefinedStr == <<"undefined">>

\* JavaScript truthiness of a string-or-undefined value: !s is true for
\* undefined and for the empty string
Falsy(s) == s = undefinedStr \/ s = <<>>

\* String.prototype.startsWith
StartsWith(s, p) == Len(s) >= Len(p) /\ SubSeq(s, 1, Len(p)) = p

\* String.prototype.substring(n)
Substring(s, n) == SubSeq(s, n + 1, Len(s))

WhiteSpace == {" "}

RECURSIVE TrimStart(_)
TrimStart(s) ==
  IF s # <<>> /\ Head(s) \in WhiteSpace THEN TrimStart(Tail(s)) ELSE s

RECURSIVE TrimEnd(_)
TrimEnd(s) ==
  IF s # <<>> /\ s[Len(s)] \in WhiteSpace
  THEN TrimEnd(SubSeq(s, 1, Len(s) - 1))
  ELSE s

\* String.prototype.trim
Trim(s) == TrimEnd(TrimStart(s))

\* new Error(message); a rejection with something that is not an Error is NonError
Error(message) == [isError |-> TRUE, message |-> message]
NonError == [isError |-> FALSE, message |-> <<>>]

\* outcome of an async provider method: resolved with a value or rejected
Return(v) == [threw |-> FALSE, value |-> v]
Throw(e) == [threw |-> TRUE, error |-> e]

(***************************************************************************)
(* String literals of the source.                                          *)
(***************************************************************************)
S_RedirectTo == <<"R","e","d","i","r","e","c","t"," ","t","o",":">>
S_NoCodeVerifierFound ==
  <<"N","o"," ","c","o","d","e"," ","v","e","r","i","f","i","e","r"," ",
    "f","o","u","n","d">>
S_ProviderNotInitialized ==
  <<"O","A","u","t","h"," ","p","r","o","v","i","d","e","r"," ","n","o","t"," ",
    "i","n","i","t","i","a","l","i","z","e","d">>
S_UnknownError == <<"U","n","k","n","o","w","n"," ","e","r","r","o","r">>
S_NoAuthorizationCode ==
  <<"N","o"," ","a","u","t","h","o","r","i","z","a","t","i","o","n"," ",
    "c","o","d","e"," ","p","r","o","v","i","d","e","d",".">>
S_FailedToComplete ==
  <<"F","a","i","l","e","d"," ","t","o"," ","c","o","m","p","l","e","t","e"," ",
    "a","u","t","h","e","n","t","i","c","a","t","i","o","n",":"," ">>
S_CallbackPath == <<"/","o","a","u","t","h","/","c","a","l","l","b","a","c","k">>

(***************************************************************************)
(* URLs.  A URL object is its origin-and-path plus its raw query; its      *)
(* string form percent-encodes the query, so it holds no white space.      *)
(***************************************************************************)
RECURSIVE PercentEncode(_)
PercentEncode(s) ==
  IF s = <<>> THEN <<>>
  ELSE (IF Head(s) = " " THEN <<"%","2","0">> ELSE <<Head(s)>>)
       \o PercentEncode(Tail(s))

\* URL.prototype.toString
UrlToString(u) == u.origin \o <<"?">> \o PercentEncode(u.query)

(***************************************************************************)
(* class SimpleOAuthProvider.  An instance is the record of its fields;    *)
(* a method that assigns a field yields the instance after the call.       *)
(***************************************************************************)
\* constructor(baseUrl): the three optional fields start undefined
SimpleOAuthProvider(baseUrl) ==
  [baseUrl |-> baseUrl, clientInfo |-> undefined, oauthTokens |-> undefined,
   verifier |-> undefinedStr]

\* get redirectUrl()
redirectUrl(this) == this.baseUrl \o S_CallbackPath

\* get clientMetadata()
clientMetadata(this) ==
  [client_name |-> "Sentry MCP Client",
   redirect_uris |-> <<redirectUrl(this)>>,
   client_uri |-> this.baseUrl]

\* async clientInformation()
clientInformation(this) == this.clientInfo

\* mutant: the registration is narrowed to ClientInformation when stored
saveClientInformation_Narrowed(this, info) ==
  [this EXCEPT !.clientInfo =
     [client_id |-> info.client_id, redirect_uris |-> info.redirect_uris]]

\* async saveClientInformation(clientInformation)
saveClientInformation(this, info) == [this EXCEPT !.clientInfo = info]

\* async tokens()
tokens(this) == this.oauthTokens

\* mutant: the token pair is not stored
saveTokens_Dropped(this, t) == this

\* mutant: only the first token pair is stored
saveTokens_KeepFirst(this, t) ==
  IF this.oauthTokens = undefined THEN [this EXCEPT !.oauthTokens = t] ELSE this

\* mutant: storing the token pair resets the registration
saveTokens_ClearsClient(this, t) ==
  [this EXCEPT !.oauthTokens = t, !.clientInfo = undefined]

\* async saveTokens(tokens)
saveTokens(this, t) == [this EXCEPT !.oauthTokens = t]

\* the message of the error thrown by redirectToAuthorization
RedirectMessage(authorizationUrl) ==
  S_RedirectTo \o <<" ">> \o UrlToString(authorizationUrl)

\* mutant: the call resolves without signalling anything
redirectToAuthorization_Silent(this, authorizationUrl) == Return(undefined)

\* async redirectToAuthorization(authorizationUrl): always rejects
redirectToAuthorization(this, authorizationUrl) ==
  Throw(Error(RedirectMessage(authorizationUrl)))

\* mutant: a verifier already stored is kept
saveCodeVerifier_KeepFirst(this, v) ==
  IF this.verifier = undefinedStr THEN [this EXCEPT !.verifier = v] ELSE this

\* async saveCodeVerifier(codeVerifier)
saveCodeVerifier(this, v) == [this EXCEPT !.verifier = v]

\* mutant: the stored field is returned without the check
codeVerifier_Unchecked(this) == Return(this.verifier)

\* async codeVerifier()
codeVerifier(this) ==
  IF Falsy(this.verifier)
  THEN Throw(Error(S_NoCodeVerifierFound))
  ELSE Return(this.verifier)

(***************************************************************************)
(* Small value sets for the inputs.                                        *)
(***************************************************************************)
\* k copies of the character c: the k-th fresh string of a kind
RECURSIVE Rep(_, _)
Rep(c, k) == IF k = 0 THEN <<>> ELSE <<c>> \o Rep(c, k - 1)

Protocol == <<"h","t","t","p","s",":">>
Hosts == {<<"a">>, <<"b">>}

\* `${url.protocol}//${url.host}` of a request to host h
BaseUrlOf(h) == Protocol \o <<"/","/">> \o h

\* the token pair the authorization server issues for its k-th grant
\* (expires_in, refresh_token and scope are optional and left out)
Token(k) == [access_token |-> Rep("t", k), token_type |-> "Bearer"]

\* the registration the authorization server returns for its k-th
\* registration request carrying the metadata md
Registration(k, md) ==
  [client_id |-> Rep("i", k), client_secret |-> Rep("s", k),
   redirect_uris |-> md.redirect_uris, client_name |-> md.client_name,
   client_uri |-> md.client_uri]

\* the PKCE verifier generated for the k-th authorization attempt
Verifier(k) == Rep("v", k)

\* the authorization code issued for the k-th authorization attempt
Code(k) == Rep("c", k)

AuthOrigin == <<"h","t","t","p","s",":","/","/","a","s","/","a","u","t","h">>

\* raw query endings the authorization server's metadata may add
QueryTails == {<<>>, <<" ">>, <<" ","x">>}

\* the authorization URL of the k-th attempt
AuthorizationUrl(k, tail) ==
  [origin |-> AuthOrigin, query |-> Code(k) \o tail]

(***************************************************************************)
(* State.                                                                  *)
(***************************************************************************)
VARIABLES
  oauthProvider,  \* the module-level `let oauthProvider`
  req,            \* the in-flight request handler of each slot
  resp,           \* the response each slot's handler returned last
  served,         \* number of requests accepted so far
  attempts,       \* authorization attempts started (authorization server)
  redeemed,       \* attempts whose code has been exchanged
  accepted,       \* token pairs the remote server accepts at present
  clients,        \* registrations made (authorization server)
  saved,          \* last argument of each save method, <<>> if never called
  ret,            \* outcome of the last direct provider call
  calls           \* number of direct provider calls made

vars == <<oauthProvider, req, resp, served, attempts, redeemed, accepted,
          clients, saved, ret, calls>>

Slots == {"A", "B"}

IdleRequest ==
  [kind |-> "idle", host |-> <<>>, code |-> undefinedStr, pc |-> "idle",
   sentToken |-> undefined, conn |-> "none", usedVerifier |-> undefinedStr,
   redirectArg |-> undefined, thrown |-> undefined, fresh |-> FALSE,
   afterFlow |-> FALSE, afterFailedExchange |-> FALSE, rejected |-> FALSE,
   exchanged |-> FALSE]

NoResponse == [type |-> "none"]
NoCall == [op |-> "none"]
NeverSaved == [verifier |-> <<>>, tokens |-> <<>>, client |-> <<>>]

httpVars == <<req, resp, served, attempts, redeemed, accepted, clients>>

(***************************************************************************)
(* SpecProvider: the provider's methods called directly, in any order,     *)
(* on one instance.                                                        *)
(***************************************************************************)
VerifierInputs == {<<>>, Verifier(1), Verifier(2)}
TokenInputs == {Token(1), Token(2)}
RegistrationInputs ==
  {Registration(k, clientMetadata(SimpleOAuthProvider(BaseUrlOf(h)))) :
     k \in {1, 2}, h \in {<<"a">>}}
UrlInputs == {AuthorizationUrl(1, tail) : tail \in QueryTails}

InitProvider ==
  /\ oauthProvider \in {SimpleOAuthProvider(BaseUrlOf(h)) : h \in Hosts}
  /\ req = [s \in Slots |-> IdleRequest]
  /\ resp = [s \in Slots |-> NoResponse]
  /\ served = 0
  /\ attempts = 0
  /\ redeemed = {}
  /\ accepted = {}
  /\ clients = 0
  /\ saved = NeverSaved
  /\ ret = NoCall
  /\ calls = 0

Called(op, result) ==
  /\ calls < MaxCalls
  /\ calls' = calls + 1
  /\ ret' = [op |-> op, result |-> result]
  /\ UNCHANGED httpVars

CallClientInformation ==
  /\ Called("clientInformation", Return(clientInformation(oauthProvider)))
  /\ UNCHANGED <<oauthProvider, saved>>

CallSaveClientInformation ==
  \E info \in RegistrationInputs :
    /\ Called("saveClientInformation", Return(undefined))
    /\ oauthProvider' = saveClientInformation(oauthProvider, info)
    /\ saved' = [saved EXCEPT !.client = <<info>>]

CallTokens ==
  /\ Called("tokens", Return(tokens(oauthProvider)))
  /\ UNCHANGED <<oauthProvider, saved>>

CallSaveTokens ==
  \E t \in TokenInputs :
    /\ Called("saveTokens", Return(undefined))
    /\ oauthProvider' = saveTokens(oauthProvider, t)
    /\ saved' = [saved EXCEPT !.tokens = <<t>>]

CallRedirectToAuthorization ==
  \E u \in UrlInputs :
    /\ Called("redirectToAuthorization", redirectToAuthorization(oauthProvider, u))
    /\ UNCHANGED <<oauthProvider, saved>>

CallSaveCodeVerifier ==
  \E v \in VerifierInputs :
    /\ Called("saveCodeVerifier", Return(undefined))
    /\ oauthProvider' = saveCodeVerifier(oauthProvider, v)
    /\ saved' = [saved EXCEPT !.verifier = <<v>>]

CallCodeVerifier ==
  /\ Called("codeVerifier", codeVerifier(oauthProvider))
  /\ UNCHANGED <<oauthProvider, saved>>

NextProvider ==
  \/ CallClientInformation
  \/ CallSaveClientInformation
  \/ CallTokens
  \/ CallSaveTokens
  \/ CallRedirectToAuthorization
  \/ CallSaveCodeVerifier
  \/ CallCodeVerifier

SpecProvider == InitProvider /\ [][NextProvider]_vars

(***************************************************************************)
(* HTTP responses.                                                         *)
(***************************************************************************)
\* c.json(body, status)
JsonResponse(status, body) == [type |-> "json", status |-> status, body |-> body]

\* c.html(...) with the page's heading and its first paragraph
HtmlResponse(h1, p) == [type |-> "html", status |-> 200, h1 |-> h1, p |-> p]

S_SuccessText ==
  <<"Y","o","u"," ","h","a","v","e"," ","s","u","c","c","e","s","s","f","u","l","l","y"," ",
    "a","u","t","h","e","n","t","i","c","a","t","e","d">>

\* the page of the callback without a code
NoCodePage == HtmlResponse("Authentication Error", S_NoAuthorizationCode)

\* the page of the callback after finishAuth and connect resolved
SuccessPage == HtmlResponse("Authentication Successful", S_SuccessText)

\* the catch block of GET /oauth/callback
CallbackCatch(error) ==
  HtmlResponse("Authentication Error",
               S_FailedToComplete \o
                 (IF error.isError THEN error.message ELSE S_UnknownError))

\* the test of the catch block of POST /api/connect for the redirect error
IsRedirectError(error) ==
  error.isError /\ StartsWith(error.message, S_RedirectTo)

\* mutant: the white space after the prefix is kept
RedirectUrlOf_NoTrim(message) == Substring(message, Len(S_RedirectTo))

\* the URL the catch block cuts out of the message of a redirect error
RedirectUrlOf(message) == Trim(Substring(message, Len(S_RedirectTo)))

\* the catch block of POST /api/connect
ConnectCatch(error) ==
  IF IsRedirectError(error)
  THEN JsonResponse(200, [redirect |-> RedirectUrlOf(error.message)])
  ELSE JsonResponse(500, [error |-> IF error.isError THEN error.message
                                                    ELSE S_UnknownError])

\* the response of POST /api/connect after listTools and close resolved
ConnectSuccess(toolList) ==
  JsonResponse(200, [success |-> TRUE, tools |-> toolList])

(***************************************************************************)
(* The collaborators: what the SDK's transport and the remote servers may  *)
(* answer.                                                                 *)
(***************************************************************************)
S_SseError == <<"S","S","E"," ","e","r","r","o","r">>
S_Unauthorized == <<"U","n","a","u","t","h","o","r","i","z","e","d">>
S_ClientInformationRequired ==
  <<"E","x","i","s","t","i","n","g"," ","O","A","u","t","h"," ","c","l","i","e","n","t"," ",
    "i","n","f","o","r","m","a","t","i","o","n"," ","i","s"," ","r","e","q","u","i","r","e","d">>
S_ExchangeFailed ==
  <<"T","o","k","e","n"," ","e","x","c","h","a","n","g","e"," ","f","a","i","l","e","d">>
\* a failure text that happens to begin like the redirect error's
S_RedirectLookalike == S_RedirectTo \o <<"x">>

\* what a rejected await on the transport may carry: the transport is opaque,
\* so the message text is not under the handlers' control
TransportFailures == {Error(S_SseError), Error(S_RedirectLookalike), NonError}

\* the tool list the remote server answers listTools() with
ServerTools == <<"find_issues">>

\* the code query parameter of a callback request
CodeInputs ==
  {undefinedStr, <<>>, <<"z">>} \cup {Code(k) : k \in 1..attempts}

(***************************************************************************)
(* Init and the steps of the handlers.  A handler runs from one await on   *)
(* the network to the next in one step; steps of different requests        *)
(* interleave.                                                             *)
(***************************************************************************)
Init ==
  /\ oauthProvider = undefined
  /\ req = [s \in Slots |-> IdleRequest]
  /\ resp = [s \in Slots |-> NoResponse]
  /\ served = 0
  /\ attempts = 0
  /\ redeemed = {}
  /\ accepted = {}
  /\ clients = 0
  /\ saved = NeverSaved
  /\ ret = NoCall
  /\ calls = 0

Free(s) == req[s].pc \in {"idle", "done"}

\* mutant: every call constructs a new provider
ProviderFor_AlwaysNew(current, baseUrl) == SimpleOAuthProvider(baseUrl)

\* createMcpClient: `if (!oauthProvider) oauthProvider = new SimpleOAuthProvider(baseUrl)`
ProviderFor(current, baseUrl) ==
  IF current = undefined THEN SimpleOAuthProvider(baseUrl) ELSE current

\* the handler of slot s ends in its catch block with `error`
Fail(s, error, fields) ==
  /\ req' = [req EXCEPT ![s] = [fields EXCEPT !.pc = "done", !.thrown = error]]
  /\ resp' = [resp EXCEPT ![s] = IF req[s].kind = "connect"
                                  THEN ConnectCatch(error)
                                  ELSE CallbackCatch(error)]

\* a callback has returned its error page after its token request was refused
FailedExchangeSeen ==
  \E t \in Slots :
    /\ req[t].kind = "callback" /\ req[t].pc = "done"
    /\ req[t].usedVerifier # undefinedStr
    /\ ~req[t].exchanged

\* POST /api/connect arrives: createMcpClient runs up to client.connect(transport),
\* whose first request carries the token pair stored at that moment
StartConnect(s) ==
  \E h \in Hosts :
    /\ Free(s)
    /\ served < MaxRequests
    /\ served' = served + 1
    /\ oauthProvider' = ProviderFor(oauthProvider, BaseUrlOf(h))
    /\ req' = [req EXCEPT ![s] =
                 [IdleRequest EXCEPT !.kind = "connect", !.host = h, !.pc = "open",
                                     !.sentToken = tokens(oauthProvider'),
                                     !.fresh = (oauthProvider = undefined),
                                     !.afterFlow = (redeemed # {}),
                                     !.afterFailedExchange = FailedExchangeSeen]]
    /\ resp' = [resp EXCEPT ![s] = NoResponse]
    /\ UNCHANGED <<attempts, redeemed, accepted, clients, saved, ret, calls>>

\* mutant: only an absent parameter counts as missing
MissingCode_AbsentOnly(code) == code = undefinedStr

\* `if (!code)` of the callback handler
MissingCode(code) == Falsy(code)

\* GET /oauth/callback arrives: the handler up to transport.finishAuth(code)
StartCallback(s) ==
  \E h \in Hosts, code \in CodeInputs :
    /\ Free(s)
    /\ served < MaxRequests
    /\ served' = served + 1
    /\ LET r == [IdleRequest EXCEPT !.kind = "callback", !.host = h, !.code = code]
       IN  IF MissingCode(code)
           THEN /\ req' = [req EXCEPT ![s] = [r EXCEPT !.pc = "done"]]
                /\ resp' = [resp EXCEPT ![s] = NoCodePage]
           ELSE IF oauthProvider = undefined
           THEN /\ req' = [req EXCEPT ![s] =
                             [r EXCEPT !.pc = "done",
                                       !.thrown = Error(S_ProviderNotInitialized)]]
                /\ resp' = [resp EXCEPT ![s] =
                              CallbackCatch(Error(S_ProviderNotInitialized))]
           ELSE /\ req' = [req EXCEPT ![s] = [r EXCEPT !.pc = "finishAuth"]]
                /\ resp' = [resp EXCEPT ![s] = NoResponse]
    /\ UNCHANGED <<oauthProvider, attempts, redeemed, accepted, clients, saved,
                   ret, calls>>

\* the remote server's decision on the first request of a connection
ServerAccepts(token) == token # undefined /\ token \in accepted

\* client.connect(transport) is answered: the connection opens, or the server
\* challenges (401) and the transport starts its authorization, or it fails
Open(s) ==
  /\ req[s].pc = "open"
  /\ UNCHANGED <<oauthProvider, served, attempts, redeemed, accepted, clients,
                 saved, ret, calls>>
  /\ \/ /\ ServerAccepts(req[s].sentToken)
        /\ IF req[s].kind = "connect"
           THEN /\ req' = [req EXCEPT ![s].conn = "open", ![s].pc = "list"]
                /\ UNCHANGED resp
           ELSE \* the callback handler returns its success page at once
                /\ req' = [req EXCEPT ![s].conn = "open", ![s].pc = "done"]
                /\ resp' = [resp EXCEPT ![s] = SuccessPage]
     \/ /\ ~ServerAccepts(req[s].sentToken)
        /\ req' = [req EXCEPT ![s].rejected = TRUE, ![s].pc = "auth"]
        /\ UNCHANGED resp
     \/ \E f \in TransportFailures : Fail(s, f, req[s])

\* the transport's authorization asks the provider for the client registration
AuthCheck(s) ==
  /\ req[s].pc = "auth"
  /\ req' = [req EXCEPT ![s].pc =
               IF clientInformation(oauthProvider) = undefined
               THEN "register" ELSE "authorize"]
  /\ UNCHANGED <<oauthProvider, resp, served, attempts, redeemed, accepted,
                 clients, saved, ret, calls>>

\* dynamic client registration is answered: the registration is saved, or it fails
Register(s) ==
  /\ req[s].pc = "register"
  /\ UNCHANGED <<served, attempts, redeemed, accepted, ret, calls>>
  /\ \/ LET info == Registration(clients + 1, clientMetadata(oauthProvider))
        IN  /\ clients' = clients + 1
            /\ oauthProvider' = saveClientInformation(oauthProvider, info)
            /\ saved' = [saved EXCEPT !.client = <<info>>]
            /\ req' = [req EXCEPT ![s].pc = "authorize"]
            /\ UNCHANGED resp
     \/ /\ \E f \in TransportFailures : Fail(s, f, req[s])
        /\ UNCHANGED <<oauthProvider, clients, saved>>

\* the transport starts an authorization attempt: it saves the attempt's verifier
\* and hands the authorization URL to redirectToAuthorization; when that call
\* resolves instead of rejecting, the transport itself rejects as unauthorized
Authorize(s) ==
  /\ req[s].pc = "authorize"
  /\ attempts' = attempts + 1
  /\ \E tail \in QueryTails :
       LET url == AuthorizationUrl(attempts + 1, tail)
           p == saveCodeVerifier(oauthProvider, Verifier(attempts + 1))
           outcome == redirectToAuthorization(p, url)
       IN  /\ oauthProvider' = p
           /\ saved' = [saved EXCEPT !.verifier = <<Verifier(attempts + 1)>>]
           /\ Fail(s, IF outcome.threw THEN outcome.error ELSE Error(S_Unauthorized),
                   [req[s] EXCEPT !.redirectArg = url])
  /\ UNCHANGED <<served, redeemed, accepted, clients, ret, calls>>

\* client.listTools() is answered
ListTools(s) ==
  /\ req[s].pc = "list"
  /\ UNCHANGED <<oauthProvider, served, attempts, redeemed, accepted, clients,
                 saved, ret, calls>>
  /\ \/ /\ req' = [req EXCEPT ![s].pc = "close"]
        /\ UNCHANGED resp
     \/ \E f \in TransportFailures : Fail(s, f, req[s])

\* client.close() resolves and POST /api/connect returns the tool list
Close(s) ==
  /\ req[s].pc = "close"
  /\ req' = [req EXCEPT ![s].conn = "closed", ![s].pc = "done"]
  /\ resp' = [resp EXCEPT ![s] = ConnectSuccess(ServerTools)]
  /\ UNCHANGED <<oauthProvider, served, attempts, redeemed, accepted, clients,
                 saved, ret, calls>>

\* transport.finishAuth(code) up to the token request: it needs the client
\* registration and the stored verifier
FinishAuth(s) ==
  /\ req[s].pc = "finishAuth"
  /\ UNCHANGED <<oauthProvider, served, attempts, redeemed, accepted, clients,
                 saved, ret, calls>>
  /\ \/ IF clientInformation(oauthProvider) = undefined
        THEN Fail(s, Error(S_ClientInformationRequired), req[s])
        ELSE LET v == codeVerifier(oauthProvider)
             IN  IF v.threw
                 THEN Fail(s, v.error, req[s])
                 ELSE /\ req' = [req EXCEPT ![s].usedVerifier = v.value,
                                            ![s].pc = "exchange"]
                      /\ UNCHANGED resp
     \/ \E f \in TransportFailures : Fail(s, f, req[s])

\* the authorization server grants a code of a started attempt once, for the
\* attempt's own verifier
Grants(code, verifier) ==
  {k \in (1..attempts) \ redeemed : code = Code(k) /\ verifier = Verifier(k)}

\* the token request is answered: on a grant the token pair is saved and
\* client.connect(transport) sends it; otherwise the exchange fails
Exchange(s) ==
  /\ req[s].pc = "exchange"
  /\ UNCHANGED <<served, attempts, clients, ret, calls>>
  /\ \/ \E k \in Grants(req[s].code, req[s].usedVerifier) :
          /\ redeemed' = redeemed \cup {k}
          /\ accepted' = accepted \cup {Token(k)}
          /\ oauthProvider' = saveTokens(oauthProvider, Token(k))
          /\ saved' = [saved EXCEPT !.tokens = <<Token(k)>>]
          /\ req' = [req EXCEPT ![s].exchanged = TRUE, ![s].pc = "open",
                                ![s].sentToken = tokens(oauthProvider')]
          /\ UNCHANGED resp
     \/ /\ Grants(req[s].code, req[s].usedVerifier) = {}
        /\ Fail(s, Error(S_ExchangeFailed), req[s])
        /\ UNCHANGED <<oauthProvider, redeemed, accepted, saved>>
     \/ /\ \E f \in TransportFailures : Fail(s, f, req[s])
        /\ UNCHANGED <<oauthProvider, redeemed, accepted, saved>>

\* the remote server stops accepting a token pair (expiry, revocation)
Expire ==
  /\ \E t \in accepted : accepted' = accepted \ {t}
  /\ UNCHANGED <<oauthProvider, req, resp, served, attempts, redeemed, clients,
                 saved, ret, calls>>

Next ==
  \/ \E s \in Slots : StartConnect(s)
  \/ \E s \in Slots : StartCallback(s)
  \/ \E s \in Slots : Open(s)
  \/ \E s \in Slots : AuthCheck(s)
  \/ \E s \in Slots : Register(s)
  \/ \E s \in Slots : Authorize(s)
  \/ \E s \in Slots : ListTools(s)
  \/ \E s \in Slots : Close(s)
  \/ \E s \in Slots : FinishAuth(s)
  \/ \E s \in Slots : Exchange(s)
  \/ Expire

Spec == Init /\ [][Next]_vars

(***************************************************************************)
(* Vocabulary of the properties.                                           *)
(***************************************************************************)
ConnectDone(s) == req[s].kind = "connect" /\ req[s].pc = "done"
CallbackDone(s) == req[s].kind = "callback" /\ req[s].pc = "done"
HasRedirect(r) == r.type = "json" /\ "redirect" \in DOMAIN r.body
IsSuccess(r) == r.type = "json" /\ "success" \in DOMAIN r.body
IsGenericError(r) ==
  r.type = "json" /\ r.status = 500 /\ DOMAIN r.body = {"error"}
RedirectResponse(url) == JsonResponse(200, [redirect |-> UrlToString(url)])
StoredTokens == IF oauthProvider = undefined THEN undefined ELSE tokens(oauthProvider)
LastSaved(field) == IF field = <<>> THEN undefined ELSE field[1]

(***************************************************************************)
(* C1.  Original statement: a POST /api/connect that starts in the initial *)
(* process state always ends with the 200 response {redirect: url}, url    *)
(* being the URL handed to redirectToAuthorization, never with the         *)
(* generic 500 {error} response.                                           *)
(***************************************************************************)
C1_Original ==
  \A s \in Slots :
    (ConnectDone(s) /\ req[s].fresh) =>
      /\ req[s].redirectArg # undefined
      /\ resp[s] = RedirectResponse(req[s].redirectArg)

\* C1 as amended: a POST /api/connect that starts in the initial process state
\* never returns success; the only way it misses redirectToAuthorization is a
\* failure of the transport (connection-open or client registration); once
\* redirectToAuthorization(url) is reached the response is 200 {redirect: url},
\* and the generic 500 {error} is returned only for a transport failure.
C1_FreshConnect ==
  \A s \in Slots :
    (ConnectDone(s) /\ req[s].fresh) =>
      /\ ~IsSuccess(resp[s])
      /\ req[s].sentToken = undefined
      /\ req[s].redirectArg = undefined => req[s].thrown \in TransportFailures
      /\ req[s].redirectArg # undefined =>
           resp[s] = RedirectResponse(req[s].redirectArg)
      /\ IsGenericError(resp[s]) =>
           /\ req[s].redirectArg = undefined
           /\ ~IsRedirectError(req[s].thrown)

C1_Witness ==
  \E s \in Slots :
    /\ ConnectDone(s) /\ req[s].fresh
    /\ req[s].redirectArg # undefined
    /\ resp[s] = RedirectResponse(req[s].redirectArg)
    /\ StartsWith(resp[s].body.redirect, AuthOrigin)

C3_ValidTokenNoRedirect ==
  \A s \in Slots :
    (ConnectDone(s) /\ req[s].conn # "none") =>
      /\ req[s].sentToken # undefined
      /\ ~req[s].rejected
      /\ req[s].redirectArg = undefined
      /\ ~HasRedirect(resp[s])

(***************************************************************************)
(* C4.  Statement: codeVerifier() fails with NotFound exactly when no      *)
(* saveCodeVerifier call preceded it, and otherwise returns the value      *)
(* saved last, for every saved string including the empty one.             *)
(***************************************************************************)
C4_VerifierNotFoundIffNeverSaved ==
  ret.op = "codeVerifier" =>
    /\ ret.result.threw <=> saved.verifier = <<>>
    /\ ret.result.threw => ret.result.error = Error(S_NoCodeVerifierFound)
    /\ ~ret.result.threw => ret.result.value = saved.verifier[1]

C4_Witness ==
  /\ ret.op = "codeVerifier"
  /\ saved.verifier = <<<<>>>>

NoCodeCallback(s) == req[s].kind = "callback" /\ Falsy(req[s].code)

C6_MissingCode ==
  [][ /\ \A s \in Slots :
           NoCodeCallback(s)' =>
             /\ req'[s].pc = "done"
             /\ resp'[s] = NoCodePage
             /\ req'[s].conn = "none"
             /\ req'[s].usedVerifier = undefinedStr
             /\ ~req'[s].exchanged
      /\ \A s \in Slots :
           (/\ served' # served
            /\ NoCodeCallback(s)'
            /\ \A t \in Slots \ {s} : req'[t] = req[t]) =>
             /\ oauthProvider' = oauthProvider
             /\ saved' = saved
             /\ <<attempts, redeemed, accepted, clients>>' =
                  <<attempts, redeemed, accepted, clients>>
    ]_vars

C6_Witness ==
  \E s \in Slots :
    /\ NoCodeCallback(s)
    /\ req[s].code = <<>>
    /\ resp[s] = NoCodePage
    /\ StoredTokens # undefined

(***************************************************************************)
(* C7.  When redirectToAuthorization(url) is invoked during a POST         *)
(* /api/connect, the call rejects with the redirect error and the          *)
(* response is 200 {redirect: u} with u the string form of url.            *)
(***************************************************************************)
C7_RedirectRoundTrip ==
  \A s \in Slots :
    (req[s].kind = "connect" /\ req[s].redirectArg # undefined) =>
      /\ req[s].pc = "done"
      /\ req[s].thrown = Error(RedirectMessage(req[s].redirectArg))
      /\ resp[s].type = "json"
      /\ resp[s].status = 200
      /\ DOMAIN resp[s].body = {"redirect"}
      /\ resp[s].body.redirect = UrlToString(req[s].redirectArg)

C7_Witness ==
  \E s \in Slots :
    /\ ConnectDone(s)
    /\ req[s].redirectArg # undefined
    /\ req[s].redirectArg.query # PercentEncode(req[s].redirectArg.query)
    /\ HasRedirect(resp[s])

(***************************************************************************)
(* C8.  Statement: POST /api/connect answers {success, tools} exactly      *)
(* when the connection opened and the tools were listed, {redirect}        *)
(* exactly when the failure is the one raised by redirectToAuthorization,  *)
(* and 500 {error: message} for every other failure, whatever its text.    *)
(***************************************************************************)
C8_ThreeResponses ==
  \A s \in Slots :
    ConnectDone(s) =>
      /\ IsSuccess(resp[s]) <=> req[s].thrown = undefined
      /\ HasRedirect(resp[s]) <=> req[s].redirectArg # undefined
      /\ (req[s].thrown # undefined /\ req[s].redirectArg = undefined) =>
           IsGenericError(resp[s])

(***************************************************************************)
(* C9.  tokens() returns the value of the most recent saveTokens, absent   *)
(* if there was none, and no other provider method changes it.             *)
(***************************************************************************)
C9_TokensLastWriteWins ==
  /\ tokens(oauthProvider) = LastSaved(saved.tokens)
  /\ ret.op = "tokens" => ret.result = Return(LastSaved(saved.tokens))

C9_Witness ==
  /\ ret.op = "tokens"
  /\ saved.tokens # <<>>
  /\ saved.verifier # <<>>
  /\ ret.result.value = saved.tokens[1]

(***************************************************************************)
(* C10.  clientInformation() returns a value equal in all fields to the    *)
(* registration saved last, absent before any save.                        *)
(***************************************************************************)
C10_RegistrationRoundTrip ==
  /\ clientInformation(oauthProvider) = LastSaved(saved.client)
  /\ ret.op = "clientInformation" =>
       ret.result = Return(LastSaved(saved.client))

C10_Witness ==
  /\ ret.op = "clientInformation"
  /\ saved.client # <<>>
  /\ ret.result.value.client_secret = saved.client[1].client_secret

(***************************************************************************)
(* C11.  Statement: the verifier is consumed by the code exchange that     *)
(* reads it: once a callback's exchange has read the stored verifier,      *)
(* codeVerifier() does not hand out that verifier again (a later callback  *)
(* fails with NotFound unless a new attempt saved a new verifier).         *)
(***************************************************************************)
C11_VerifierConsumedOnce ==
  \A s \in Slots :
    (req[s].kind = "callback" /\ req[s].usedVerifier # undefinedStr) =>
      codeVerifier(oauthProvider) # Return(req[s].usedVerifier)

(***************************************************************************)
(* C12.  Original statement: a code exchange is only attempted with the    *)
(* verifier saved by the authorization attempt that produced the code.     *)
(***************************************************************************)
C12_Original ==
  \A s \in Slots :
    (req[s].kind = "callback" /\ req[s].usedVerifier # undefinedStr) =>
      \A k \in 1..attempts :
        req[s].code = Code(k) => req[s].usedVerifier = Verifier(k)

\* C12 as amended: the store holds one verifier, the one of the attempt started
\* last (last write wins); a code exchange is attempted with the verifier stored
\* when finishAuth reads it, whichever attempt saved it, and never without one:
\* if none is stored the callback fails with an error page and sends nothing.
\* Tokens are granted only when that verifier belongs to the code's attempt.
C12_StoredVerifier ==
  /\ oauthProvider # undefined =>
       oauthProvider.verifier =
         (IF attempts = 0 THEN undefinedStr ELSE Verifier(attempts))
  /\ \A s \in Slots :
       req[s].kind = "callback" =>
         /\ req[s].pc = "exchange" =>
              \E j \in 1..attempts : req[s].usedVerifier = Verifier(j)
         /\ req[s].exchanged =>
              \E k \in redeemed :
                req[s].code = Code(k) /\ req[s].usedVerifier = Verifier(k)
         /\ (req[s].pc = "done" /\ ~Falsy(req[s].code)
               /\ req[s].usedVerifier = undefinedStr) =>
              /\ req[s].thrown # undefined
              /\ resp[s] = CallbackCatch(req[s].thrown)
              /\ ~req[s].exchanged

C12_Witness ==
  \E s \in Slots :
    /\ CallbackDone(s)
    /\ req[s].code = Code(1)
    /\ req[s].usedVerifier = Verifier(2)
    /\ req[s].thrown = Error(S_ExchangeFailed)

(***************************************************************************)
(* C13.  Original statement: once clientInformation() is non-absent its    *)
(* value is the same in every later state.                                 *)
(***************************************************************************)
StoredClientInfo ==
  IF oauthProvider = undefined THEN undefined ELSE clientInformation(oauthProvider)

C13_Original ==
  [][StoredClientInfo # undefined => StoredClientInfo' = StoredClientInfo]_vars

\* C13 as amended: once clientInformation() is non-absent it never becomes
\* absent again, and it changes only by a saveClientInformation call, which
\* overwrites it; the HTTP flow makes that call only at the end of a dynamic
\* registration, and starts a registration only when it found none stored, so
\* the value is replaced only when two connection attempts registered at once.
C13_Registration ==
  [][ /\ StoredClientInfo # undefined => StoredClientInfo' # undefined
      /\ StoredClientInfo' # StoredClientInfo =>
           /\ \E s \in Slots :
                req[s].pc = "register" /\ req'[s].pc = "authorize"
           /\ StoredClientInfo' = LastSaved(saved'.client)
      /\ \A s \in Slots :
           (req[s].pc = "auth" /\ req'[s].pc = "register") =>
             StoredClientInfo = undefined
    ]_vars

C13_Witness ==
  /\ StoredClientInfo # undefined
  /\ clients = 2
  /\ StoredClientInfo.client_id = Rep("i", 2)
  /\ StoredTokens # undefined

(***************************************************************************)
(* C14.  Statement: a connection opened by GET /oauth/callback is closed   *)
(* before the handler returns its response; none stays open afterwards.    *)
(***************************************************************************)
C14_CallbackClosesConnection ==
  \A s \in Slots : CallbackDone(s) => req[s].conn # "open"

(***************************************************************************)
(* C15.  Statement: every connection POST /api/connect opened is closed    *)
(* before the response is returned, whether tool listing succeeded or      *)
(* failed.                                                                 *)
(***************************************************************************)
C15_ConnectClosesConnection ==
  \A s \in Slots : ConnectDone(s) => req[s].conn # "open"

(***************************************************************************)
(* C16.  Original statement: a callback whose exchange fails leaves the    *)
(* Token Store and the client registration as they were, and a POST        *)
(* /api/connect that follows it without a token yields a redirect          *)
(* response again.                                                         *)
(***************************************************************************)
FailedCallbackFrame ==
  \A s \in Slots :
    (req'[s].kind = "callback" /\ req'[s] # req[s] /\ ~req'[s].exchanged) =>
      /\ StoredTokens' = StoredTokens
      /\ StoredClientInfo' = StoredClientInfo

RetryConnect(s) ==
  /\ req[s].kind = "connect"
  /\ req[s].afterFailedExchange
  /\ req[s].sentToken = undefined

C16_Original ==
  [][ /\ FailedCallbackFrame
      /\ \A s \in Slots :
           (RetryConnect(s) /\ req[s].pc = "done")' => HasRedirect(resp[s])'
    ]_vars

\* C16 as amended: a callback whose exchange fails leaves the Token Store and
\* the client registration as they were, and a POST /api/connect that follows
\* it without a token is not stuck: it never registers again, never returns
\* success, and yields the redirect response for a new authorization URL unless
\* its connection-open fails, which gives the catch block's response for that
\* failure.
C16_RetryPermitted ==
  [][ /\ FailedCallbackFrame
      /\ \A s \in Slots :
           RetryConnect(s)' =>
             /\ req'[s].pc # "register"
             /\ req'[s].pc = "done" =>
                  /\ ~IsSuccess(resp'[s])
                  /\ req'[s].redirectArg = undefined =>
                       req'[s].thrown \in TransportFailures
                  /\ req'[s].redirectArg # undefined =>
                       resp'[s] = RedirectResponse(req'[s].redirectArg)
    ]_vars

C16_Witness ==
  \E s \in Slots :
    /\ RetryConnect(s) /\ req[s].pc = "done"
    /\ req[s].redirectArg # undefined
    /\ HasRedirect(resp[s])
    /\ StoredClientInfo # undefined

(***************************************************************************)
(* C17.  Original statement: for GET /oauth/callback with a code, the      *)
(* success page is returned exactly when the exchange succeeded and        *)
(* populated the Token Store, and the error page exactly when it failed.   *)
(***************************************************************************)
CodeCallbackDone(s) == CallbackDone(s) /\ ~Falsy(req[s].code)

C17_Original ==
  \A s \in Slots :
    CodeCallbackDone(s) =>
      /\ resp[s] = SuccessPage <=> req[s].exchanged
      /\ resp[s] # SuccessPage => resp[s].h1 = "Authentication Error"

\* C17 as amended: the success page is returned exactly when the exchange
\* succeeded (populating the Token Store) and the connection then opened; the
\* error page is returned when the exchange failed or when the connection-open
\* after a successful exchange failed, so the success page implies that this
\* request populated the Token Store, while an error page does not imply that
\* it did not.
C17_PageReflectsOutcome ==
  \A s \in Slots :
    /\ (req[s].kind = "callback" /\ req[s].exchanged) => StoredTokens # undefined
    /\ CodeCallbackDone(s) =>
         /\ resp[s] = SuccessPage <=>
              (req[s].exchanged /\ req[s].conn = "open" /\ req[s].thrown = undefined)
         /\ resp[s] # SuccessPage =>
              /\ req[s].thrown # undefined
              /\ resp[s] = CallbackCatch(req[s].thrown)
              /\ req[s].conn = "none"
         /\ ~req[s].exchanged => resp[s] # SuccessPage

C17_Witness ==
  \E s \in Slots :
    /\ CodeCallbackDone(s)
    /\ req[s].exchanged
    /\ resp[s] = CallbackCatch(Error(S_SseError))
    /\ StoredTokens = Token(1)

(***************************************************************************)
(* C18.  Statement: during every connection attempt the redirect URI in    *)
(* the provider's client metadata is the base URL of the request being     *)
(* served followed by "/oauth/callback", also when requests arrive on      *)
(* different hosts.                                                        *)
(***************************************************************************)
C18_RedirectUriOfRequest ==
  \A s \in Slots :
    req[s].kind = "connect" =>
      clientMetadata(oauthProvider).redirect_uris =
        <<BaseUrlOf(req[s].host) \o S_CallbackPath>>

====
